---- MODULE Spec2Model ----
(***************************************************************************)
(* A model of the mutable URL container basic_value                        *)
(* (include/boost/url/impl/basic_value.ipp): the byte buffer s_, the       *)
(* component index table pt_ (offsets, nseg, nparam, port, host) and the   *)
(* setters that splice the buffer through the two resize overloads.        *)
(*                                                                         *)
(* Bytes are one-character strings; a string_view is a sequence of bytes.  *)
(* The buffer s_ is modelled up to and including the byte that follows    *)
(* the last region: no code reads the storage beyond that position.  A    *)
(* byte a resize uncovers and no setter writes keeps the value the        *)
(* storage held there.                                                     *)
(*                                                                         *)
(* The userinfo parser of rfc/impl/userinfo.ipp is modelled beside it, as  *)
(* calls on the bytes start_ with the result object t_.                    *)
(***************************************************************************)
EXTENDS Integers, Sequences, FiniteSets, TLC

VARIABLES s_, pt_, start_, t_, ret_

vars == <<s_, pt_, start_, t_, ret_>>

\* the objects of a call of rfc::parse for a userinfo: the bytes
\* [start, end), the userinfo t, and the position and error it returned
parse_vars == <<start_, t_, ret_>>

(***************************************************************************)
(* Bounds of the model.                                                    *)
(***************************************************************************)
\* the longest URL (offset[id_end]) a setter may produce
MaxLen == 8

\* std::size_t has SizeBits bits
SizeBits == 4

SizeMod == 2 ^ SizeBits

\* (std::size_t)-1
SizeMax == SizeMod - 1

(***************************************************************************)
(* Component ids of namespace detail, in the order of the offset table.    *)
(***************************************************************************)
id_scheme == 0
id_username == 1
id_password == 2
id_hostname == 3
id_port == 4
id_path == 5
id_query == 6
id_frag == 7
id_end == 8

\* the terminating byte of the buffer
NUL == "NUL"
\* a byte of freshly allocated storage that nothing has written yet
JUNK == "JUNK"

(***************************************************************************)
(* Character classes (RFC 3986), as the sets the pct-sets are built from.  *)
(***************************************************************************)
ALPHA ==
    {"a","b","c","d","e","f","g","h","i","j","k","l","m",
     "n","o","p","q","r","s","t","u","v","w","x","y","z",
     "A","B","C","D","E","F","G","H","I","J","K","L","M",
     "N","O","P","Q","R","S","T","U","V","W","X","Y","Z"}

DIGIT == {"0","1","2","3","4","5","6","7","8","9"}

HEXDIG == DIGIT \cup {"a","b","c","d","e","f","A","B","C","D","E","F"}

unreserved == ALPHA \cup DIGIT \cup {"-", ".", "_", "~"}

sub_delims == {"!", "$", "&", "'", "(", ")", "*", "+", ",", ";", "="}

scheme_chars == ALPHA \cup DIGIT \cup {"+", "-", "."}

userinfo_nc_pct_set == unreserved \cup sub_delims

userinfo_pct_set == unreserved \cup sub_delims \cup {":"}

reg_name_pct_set == unreserved \cup sub_delims

pchar == unreserved \cup sub_delims \cup {":", "@"}

path_chars == pchar \cup {"/"}

query_pct_set == pchar \cup {"/", "?"}

frag_pct_set == pchar \cup {"/", "?"}

qkey_pct_set == query_pct_set \ {"=", "&"}

qval_pct_set == qkey_pct_set \cup {"="}

(***************************************************************************)
(* Byte values, for percent-encoding.                                      *)
(***************************************************************************)
Printable ==
    <<" ", "!", "DQUOTE", "#", "$", "%", "&", "'", "(", ")", "*", "+", ",", "-", ".", "/",
      "0", "1", "2", "3", "4", "5", "6", "7", "8", "9", ":", ";", "<", "=", ">", "?",
      "@", "A", "B", "C", "D", "E", "F", "G", "H", "I", "J", "K", "L", "M", "N", "O",
      "P", "Q", "R", "S", "T", "U", "V", "W", "X", "Y", "Z", "[", "BSLASH", "]", "^", "_",
      "BQUOTE", "a", "b", "c", "d", "e", "f", "g", "h", "i", "j", "k", "l", "m", "n", "o",
      "p", "q", "r", "s", "t", "u", "v", "w", "x", "y", "z", "{", "|", "}", "~">>

Ord(c) ==
    IF c = NUL THEN 0
    ELSE 31 + (CHOOSE i \in 1..Len(Printable) : Printable[i] = c)

HexChars ==
    <<"0", "1", "2", "3", "4", "5", "6", "7", "8", "9", "A", "B", "C", "D", "E", "F">>

DigitVal(c) == CHOOSE i \in 0..9 : HexChars[i + 1] = c

(***************************************************************************)
(* Sequence helpers.                                                       *)
(***************************************************************************)
Min(a, b) == IF a <= b THEN a ELSE b

Max(a, b) == IF a >= b THEN a ELSE b

\* the bytes s[i..j] (1-based, clamped to the sequence)
Sub(s, i, j) ==
    IF Min(j, Len(s)) < Max(i, 1) THEN << >>
    ELSE SubSeq(s, Max(i, 1), Min(j, Len(s)))

Tail0(s, k) == Sub(s, k + 1, Len(s))

\* the offset table with the nine entries of the tuple t
Offsets(t) ==
    (id_scheme :> t[1]) @@ (id_username :> t[2]) @@ (id_password :> t[3])
    @@ (id_hostname :> t[4]) @@ (id_port :> t[5]) @@ (id_path :> t[6])
    @@ (id_query :> t[7]) @@ (id_frag :> t[8]) @@ (id_end :> t[9])

\* the least index >= from whose byte is in S, or Len(s) + 1
RECURSIVE Find(_, _, _)
Find(s, S, from) ==
    IF from > Len(s) THEN Len(s) + 1
    ELSE IF s[from] \in S THEN from
    ELSE Find(s, S, from + 1)

Count(s, c) == Cardinality({i \in 1..Len(s) : s[i] = c})

AllIn(s, S) == \A i \in 1..Len(s) : s[i] \in S

(***************************************************************************)
(* Percent-encoding engine: a pct-set is the set of bytes that may appear  *)
(* unencoded.                                                              *)
(***************************************************************************)
\* pct_set::parse: consume bytes of the set and %HH triplets from position
\* p (1-based); stops without error at the first other byte, and with an
\* error at a percent sign that does not start a triplet.  [p, ec]
RECURSIVE pct_parse(_, _, _)
pct_parse(s, e, p) ==
    IF p > Len(s) THEN [p |-> p, ec |-> FALSE]
    ELSE IF s[p] \in e THEN pct_parse(s, e, p + 1)
    ELSE IF s[p] = "%"
         THEN IF p + 2 <= Len(s) /\ s[p + 1] \in HEXDIG /\ s[p + 2] \in HEXDIG
              THEN pct_parse(s, e, p + 3)
              ELSE [p |-> p, ec |-> TRUE]
    ELSE [p |-> p, ec |-> FALSE]

\* pct_set::validate: the whole of s is bytes of the set and %HH triplets
pct_validate(s, e) ==
    LET r == pct_parse(s, e, 1) IN ~r.ec /\ r.p = Len(s) + 1

\* pct_set::encode: bytes outside the set become %HH
RECURSIVE pct_encode(_, _)
pct_encode(s, e) ==
    IF s = << >> THEN << >>
    ELSE LET c == Head(s)
             n == Ord(c)
         IN (IF c \in e THEN <<c>>
             ELSE <<"%", HexChars[(n \div 16) + 1], HexChars[(n % 16) + 1]>>)
            \o pct_encode(Tail(s), e)

pct_encoded_size(s, e) == Len(pct_encode(s, e))

\* the value of a hex digit of either case
HexVal(c) ==
    IF c \in DIGIT \cup {"A", "B", "C", "D", "E", "F"}
    THEN (CHOOSE i \in 1..16 : HexChars[i] = c) - 1
    ELSE 9 + (CHOOSE i \in 1..6 : <<"a", "b", "c", "d", "e", "f">>[i] = c)

\* the byte of value n; a value outside NUL and the printable bytes is
\* named by its number
Chr(n) ==
    IF n = 0 THEN NUL
    ELSE IF n \in 32..126 THEN Printable[n - 31]
    ELSE ToString(n)

\* percent-decoding: each %HH triplet becomes the byte of value HH
RECURSIVE pct_decode(_)
pct_decode(s) ==
    IF s = << >> THEN << >>
    ELSE IF s[1] = "%" /\ Len(s) >= 3 /\ s[2] \in HEXDIG /\ s[3] \in HEXDIG
    THEN <<Chr(16 * HexVal(s[2]) + HexVal(s[3]))>> \o pct_decode(Tail0(s, 3))
    ELSE <<s[1]>> \o pct_decode(Tail(s))

(***************************************************************************)
(* Grammar parsers (namespace detail).  Each returns a parts record; ok    *)
(* is FALSE where the throwing overload raises invalid_part.               *)
(***************************************************************************)
\* the value of a string of decimal digits
RECURSIVE DecValue(_)
DecValue(d) ==
    IF d = << >> THEN 0
    ELSE 10 * DecValue(Sub(d, 1, Len(d) - 1)) + DigitVal(d[Len(d)])

\* optional<unsigned short> as a set: {} is "no value"
PortNumber(d) ==
    IF d = << >> \/ ~AllIn(d, DIGIT) \/ Len(d) > 9 THEN {}
    ELSE IF DecValue(d) <= 65535 THEN {DecValue(d)} ELSE {}

\* detail::port_string: the decimal digits of a 16-bit number
RECURSIVE port_string_of(_)
port_string_of(n) ==
    IF n < 10 THEN <<HexChars[n + 1]>>
    ELSE port_string_of(n \div 10) \o <<HexChars[(n % 10) + 1]>>

\* the pieces of s between the separators c
RECURSIVE Split(_, _)
Split(s, c) ==
    LET i == Find(s, {c}, 1)
    IN IF i > Len(s) THEN <<s>>
       ELSE <<Sub(s, 1, i - 1)>> \o Split(Tail0(s, i), c)

IsDecOctet(d) ==
    /\ Len(d) \in 1..3
    /\ AllIn(d, DIGIT)
    /\ (Len(d) > 1 => d[1] # "0")
    /\ DecValue(d) <= 255

IsIPv4(h) ==
    LET q == Split(h, ".")
    IN Len(q) = 4 /\ \A i \in 1..4 : IsDecOctet(q[i])

IsH16(g) == Len(g) \in 1..4 /\ AllIn(g, HEXDIG)

\* the number of 16-bit groups a colon-separated run stands for, or -1;
\* lastV4 allows a trailing IPv4 address (two groups)
GroupCount(run, lastV4) ==
    IF run = << >> THEN 0
    ELSE LET g == Split(run, ":")
             n == Len(g)
         IN IF \A i \in 1..n : IsH16(g[i]) THEN n
            ELSE IF lastV4 /\ IsIPv4(g[n]) /\ \A i \in 1..(n - 1) : IsH16(g[i])
                 THEN n + 1
            ELSE 0 - 1

\* the first index i with s[i] = s[i+1] = ":", or 0
RECURSIVE FindDoubleColon(_, _)
FindDoubleColon(s, i) ==
    IF i + 1 > Len(s) THEN 0
    ELSE IF s[i] = ":" /\ s[i + 1] = ":" THEN i
    ELSE FindDoubleColon(s, i + 1)

IsIPv6(a) ==
    LET dc == FindDoubleColon(a, 1)
    IN IF dc = 0 THEN GroupCount(a, TRUE) = 8
       ELSE LET l == GroupCount(Sub(a, 1, dc - 1), FALSE)
                r == GroupCount(Tail0(a, dc + 1), TRUE)
            IN l >= 0 /\ r >= 0 /\ l + r <= 7

IsIPvFuture(a) ==
    LET dot == Find(a, {"."}, 1)
    IN /\ Len(a) >= 4
       /\ a[1] = "v"
       /\ dot \in 3..(Len(a) - 1)
       /\ AllIn(Sub(a, 2, dot - 1), HEXDIG)
       /\ AllIn(Tail0(a, dot), unreserved \cup sub_delims \cup {":"})

\* host_type of a host string: "none" for the empty host, "invalid" when
\* it matches no production of host
HostKind(h) ==
    IF h = << >> THEN "none"
    ELSE IF h[1] = "["
         THEN IF h[Len(h)] # "]" \/ Len(h) < 3 THEN "invalid"
              ELSE LET a == Sub(h, 2, Len(h) - 1)
                   IN IF IsIPv6(a) THEN "ipv6"
                      ELSE IF IsIPvFuture(a) THEN "ipvfuture"
                      ELSE "invalid"
    ELSE IF IsIPv4(h) THEN "ipv4"
    ELSE IF pct_validate(h, reg_name_pct_set) THEN "name"
    ELSE "invalid"

\* detail::parse_hostname(pt, s): host = IP-literal / IPv4address / reg-name
parse_hostname(s) ==
    LET Result(kind) == [ok |-> kind # "invalid", host |-> kind]
    IN Result(HostKind(s))

\* detail::parse_port(pt, s): port = *DIGIT
parse_port(s) ==
    [ok |-> AllIn(s, DIGIT), port |-> PortNumber(s)]

\* detail::parse_host(pt, s): host [ ":" port ]; the port part keeps its ':'
parse_host(s) ==
    LET hend == IF s # << >> /\ s[1] = "[" THEN Find(s, {"]"}, 1) + 1
                ELSE Find(s, {":"}, 1)
        h == Sub(s, 1, hend - 1)
        p == Tail0(s, hend - 1)
        digits == Tail0(p, 1)
        Result(kind) ==
            [ok |-> /\ kind # "invalid"
                    /\ (p # << >> => p[1] = ":" /\ AllIn(digits, DIGIT)),
             len_hostname |-> Len(h),
             len_port |-> Len(p),
             host |-> kind,
             port |-> IF p = << >> THEN {} ELSE PortNumber(digits)]
    IN Result(HostKind(h))

\* detail::parse_authority(pt, s): [ userinfo "@" ] host [ ":" port ].
\* The user part is the userinfo up to its first ':'; the password part is
\* the rest of the userinfo with its ':' and the closing '@'.
parse_authority(s) ==
    LET at == Find(s, {"@"}, 1)
        has == at <= Len(s)
        ui == IF has THEN Sub(s, 1, at - 1) ELSE << >>
        nu == Find(ui, {":"}, 1) - 1
        Result(hp) ==
            [ok |-> hp.ok /\ pct_validate(ui, userinfo_pct_set),
             len_username |-> nu,
             len_password |-> IF has THEN Len(ui) - nu + 1 ELSE 0,
             len_hostname |-> hp.len_hostname,
             len_port |-> hp.len_port,
             host |-> hp.host,
             port |-> hp.port]
    IN Result(parse_host(IF has THEN Tail0(s, at) ELSE s))

\* the length of scheme ":" at the start of s, or 0
SchemeLen(s) ==
    LET c == Find(s, {":", "/", "?", "#"}, 1)
    IN IF c <= Len(s) /\ s[c] = ":" /\ c > 1 /\ s[1] \in ALPHA
          /\ AllIn(Sub(s, 1, c - 1), scheme_chars)
       THEN c ELSE 0

\* detail::parse_scheme(pr, s): scheme = ALPHA *( ALPHA / DIGIT / "+" / "-" / "." )
parse_scheme(s) ==
    [ok |-> s # << >> /\ s[1] \in ALPHA /\ AllIn(s, scheme_chars)]

\* detail::parse_path_abempty(pt, s): path-abempty = *( "/" segment )
parse_path_abempty(s) ==
    [ok |-> (s # << >> => s[1] = "/") /\ pct_validate(s, path_chars)]

\* the number of segments of a path: one per '/', and one more for a
\* first segment that no '/' precedes
SegmentCount(p) ==
    IF p = << >> THEN 0
    ELSE Count(p, "/") + (IF p[1] = "/" THEN 0 ELSE 1)

\* the number of '&'-separated parameters of a query part "?..."
ParamCount(q) == IF q = << >> THEN 0 ELSE 1 + Count(q, "&")

\* the context-sensitive path production (path-abempty / path-absolute /
\* path-rootless / path-noscheme / path-empty)
PathOk(p, hasScheme, hasAuthority) ==
    /\ pct_validate(p, path_chars)
    /\ IF hasAuthority THEN p = << >> \/ p[1] = "/"
       ELSE IF p = << >> THEN TRUE
       ELSE IF p[1] = "/" THEN Len(p) = 1 \/ p[2] # "/"
       ELSE hasScheme \/ ":" \notin {p[i] : i \in 1..(Find(p, {"/"}, 1) - 1)}

\* detail::parse_url(pt, s, ec): URI-reference = URI / relative-ref, with
\* the offsets of the eight prefix-delimited regions
parse_url(s) ==
    LET n0 == SchemeLen(s)
        Result(hasA, aend, pend, qend, au) ==
            LET path == Sub(s, aend, pend - 1)
                query == Sub(s, pend, qend - 1)
                frag == Sub(s, qend, Len(s))
                o1 == n0
                o2 == o1 + (IF hasA THEN 2 + au.len_username ELSE 0)
                o3 == o2 + au.len_password
                o4 == o3 + au.len_hostname
            IN [ok |-> /\ (hasA => au.ok)
                       /\ PathOk(path, n0 > 0, hasA)
                       /\ pct_validate(Tail0(query, 1), query_pct_set)
                       /\ pct_validate(Tail0(frag, 1), frag_pct_set),
                offset |-> Offsets(<<0, o1, o2, o3, o4, aend - 1, pend - 1,
                                     qend - 1, Len(s)>>),
                nseg |-> SegmentCount(path),
                nparam |-> ParamCount(query),
                port |-> IF hasA THEN au.port ELSE {},
                host |-> IF hasA THEN au.host ELSE "none"]
        Path(hasA, aend) ==
            Result(hasA, aend, Find(s, {"?", "#"}, aend), Find(s, {"#"}, aend),
                   parse_authority(IF hasA THEN Sub(s, n0 + 3, aend - 1)
                                   ELSE << >>))
        Authority(hasA) ==
            Path(hasA, IF hasA THEN Find(s, {"/", "?", "#"}, n0 + 3) ELSE n0 + 1)
    IN Authority(Len(s) >= n0 + 2 /\ s[n0 + 1] = "/" /\ s[n0 + 2] = "/")

\* detail::parse_origin(pt, s, ec): [ scheme ":" ] [ "//" authority ]
parse_origin(s) ==
    LET Result(pt) == [pt EXCEPT !.ok = pt.ok /\ pt.offset[id_path] = Len(s)]
    IN Result(parse_url(s))

\* whether s is a URI-reference of RFC 3986
IsUriReference(s) == parse_url(s).ok

(***************************************************************************)
(* The parts table (detail::parts) and the storage (detail::storage).      *)
(***************************************************************************)
\* parts::length(id)
length(pt, id) == pt.offset[id + 1] - pt.offset[id]

\* parts::length(first, last)
length2(pt, first, last) == pt.offset[last] - pt.offset[first]

\* parts::get(id, s)
get(u, id) == Sub(u.s_, u.pt_.offset[id] + 1, u.pt_.offset[id + 1])

\* parts::get(first, last, s)
get2(u, first, last) == Sub(u.s_, u.pt_.offset[first] + 1, u.pt_.offset[last])

\* parts::split(id, n): component id keeps its first n bytes, the rest
\* goes to component id + 1
split(pt, id, n) == [pt EXCEPT !.offset[id + 1] = pt.offset[id] + n]

\* basic_value::size()
size(u) == u.pt_.offset[id_end]

\* storage::resize(n): n bytes and the terminator; the old contents are
\* kept, bytes the old storage did not have are unwritten
a_resize(s, n) ==
    SubSeq([i \in 1..(n + 1) |->
               IF i = n + 1 THEN NUL
               ELSE IF i <= Len(s) THEN s[i]
               ELSE JUNK], 1, n + 1)

\* std::memmove(s + dst, s + src, cnt), positions 0-based
memmove(s, dst, src, cnt) ==
    SubSeq([i \in 1..Len(s) |->
               IF i - 1 >= dst /\ i - 1 < dst + cnt /\ i - dst + src \in 1..Len(s)
               THEN s[i - dst + src]
               ELSE s[i]], 1, Len(s))

\* string_view::copy / memcpy of the bytes b to s + pos
write(s, pos, b) ==
    SubSeq([i \in 1..Len(s) |->
               IF i - pos \in 1..Len(b) THEN b[i - pos] ELSE s[i]], 1, Len(s))

\* the offset table that maps each id i to f[i]
Table(f) == Offsets(SubSeq([k \in 1..9 |-> f[k - 1]], 1, 9))

\* the parts of a default-constructed value
EmptyParts ==
    [offset |-> Offsets(<<0, 0, 0, 0, 0, 0, 0, 0, 0>>),
     nseg |-> 0, nparam |-> 0, port |-> {}, host |-> "none"]

\* a parser's result as a parts table
AsParts(r) ==
    [offset |-> r.offset, nseg |-> r.nseg, nparam |-> r.nparam,
     port |-> r.port, host |-> r.host]

\* the size check made against the region alone, not the whole buffer
too_large_of_region(u, len, new_size) ==
    new_size > len /\ (new_size - len) % SizeMod > (SizeMax - len) % SizeMod

\* the check before both resize overloads grow the buffer: true when
\* too_large::raise() is called
too_large(u, len, new_size) ==
    new_size > len /\ (new_size - len) % SizeMod > (SizeMax - size(u)) % SizeMod

\* resize(id, n) with a memmove that leaves the terminator behind
resize_unterminated(u, id, new_size) ==
    LET o == u.pt_.offset
        len == length(u.pt_, id)
        pos == o[id + 1]
        cnt == o[id_end] - pos
    IN IF len = new_size THEN u
       ELSE IF new_size <= len
       THEN LET n == len - new_size
                moved == memmove(u.s_, pos - n, pos, cnt)
            IN [s_ |-> Sub(moved, 1, o[id_end] - n + 1),
                pt_ |-> [u.pt_ EXCEPT !.offset =
                    Table([i \in id_scheme..id_end |->
                        IF i >= id + 1 THEN o[i] - n ELSE o[i]])]]
       ELSE LET n == new_size - len
                s1 == a_resize(u.s_, (size(u) - len + new_size) % SizeMod)
            IN [s_ |-> memmove(s1, pos + n, pos, cnt),
                pt_ |-> [u.pt_ EXCEPT !.offset =
                    Table([i \in id_scheme..id_end |->
                        IF i >= id + 1 THEN o[i] + n ELSE o[i]])]]

\* resize(id, n) whose loops over the offsets start at id, not id + 1
resize_from_id(u, id, new_size) ==
    LET o == u.pt_.offset
        len == length(u.pt_, id)
        pos == o[id + 1]
        cnt == o[id_end] - pos + 1
    IN IF len = new_size THEN u
       ELSE IF new_size <= len
       THEN LET n == len - new_size
                moved == memmove(u.s_, pos - n, pos, cnt)
            IN [s_ |-> Sub(moved, 1, o[id_end] - n + 1),
                pt_ |-> [u.pt_ EXCEPT !.offset =
                    Table([i \in id_scheme..id_end |->
                        IF i >= id THEN o[i] - n ELSE o[i]])]]
       ELSE LET n == new_size - len
                s1 == a_resize(u.s_, (size(u) - len + new_size) % SizeMod)
            IN [s_ |-> memmove(s1, pos + n, pos, cnt),
                pt_ |-> [u.pt_ EXCEPT !.offset =
                    Table([i \in id_scheme..id_end |->
                        IF i >= id THEN o[i] + n ELSE o[i]])]]

(***************************************************************************)
(* The resize engine.                                                      *)
(***************************************************************************)
\* basic_value::resize(int id, size_t new_size)
resize(u, id, new_size) ==
    LET o == u.pt_.offset
        len == length(u.pt_, id)
        pos == o[id + 1]
        cnt == o[id_end] - pos + 1
    IN IF len = new_size THEN u
       ELSE IF new_size <= len
       THEN LET n == len - new_size
                moved == memmove(u.s_, pos - n, pos, cnt)
            IN [s_ |-> Sub(moved, 1, o[id_end] - n + 1),
                pt_ |-> [u.pt_ EXCEPT !.offset =
                    Table([i \in id_scheme..id_end |->
                        IF i >= id + 1 THEN o[i] - n ELSE o[i]])]]
       ELSE LET n == new_size - len
                s1 == a_resize(u.s_, (size(u) - len + new_size) % SizeMod)
            IN [s_ |-> memmove(s1, pos + n, pos, cnt),
                pt_ |-> [u.pt_ EXCEPT !.offset =
                    Table([i \in id_scheme..id_end |->
                        IF i >= id + 1 THEN o[i] + n ELSE o[i]])]]

\* resize(first, last, n) without the loops over the offsets between first
\* and last
resize2_no_collapse(u, first, last, new_size) ==
    LET o == u.pt_.offset
        len == length2(u.pt_, first, last)
        pos == o[last]
        cnt == o[id_end] - pos + 1
    IN IF new_size = 0 /\ len = 0 THEN u
       ELSE IF new_size <= len
       THEN LET n == len - new_size
                moved == memmove(u.s_, pos - n, pos, cnt)
            IN [s_ |-> Sub(moved, 1, o[id_end] - n + 1),
                pt_ |-> [u.pt_ EXCEPT !.offset =
                    Table([i \in id_scheme..id_end |->
                        IF i >= last THEN o[i] - n ELSE o[i]])]]
       ELSE LET n == new_size - len
                s1 == a_resize(u.s_, (size(u) - len + new_size) % SizeMod)
            IN [s_ |-> memmove(s1, pos + n, pos, cnt),
                pt_ |-> [u.pt_ EXCEPT !.offset =
                    Table([i \in id_scheme..id_end |->
                        IF i >= last THEN o[i] + n ELSE o[i]])]]

\* basic_value::resize(int first, int last, size_t new_size)
resize2(u, first, last, new_size) ==
    LET o == u.pt_.offset
        len == length2(u.pt_, first, last)
        pos == o[last]
        cnt == o[id_end] - pos + 1
    IN IF new_size = 0 /\ len = 0 THEN u
       ELSE IF new_size <= len
       THEN LET n == len - new_size
                moved == memmove(u.s_, pos - n, pos, cnt)
            IN [s_ |-> Sub(moved, 1, o[id_end] - n + 1),
                pt_ |-> [u.pt_ EXCEPT !.offset =
                    Table([i \in id_scheme..id_end |->
                        IF i > first /\ i < last THEN o[last] - n
                        ELSE IF i >= last THEN o[i] - n
                        ELSE o[i]])]]
       ELSE LET n == new_size - len
                s1 == a_resize(u.s_, (size(u) - len + new_size) % SizeMod)
            IN [s_ |-> memmove(s1, pos + n, pos, cnt),
                pt_ |-> [u.pt_ EXCEPT !.offset =
                    Table([i \in id_scheme..id_end |->
                        IF i > first /\ i < last THEN o[last] + n
                        ELSE IF i >= last THEN o[i] + n
                        ELSE o[i]])]]

\* the position a resize returns: s_ + pt_.offset[id]
dest(u, id) == u.pt_.offset[id]

\* the outcome of a setter: the value it leaves and whether it returned
\* (ok) or raised
Ret(u, ok) == [s_ |-> u.s_, pt_ |-> u.pt_, ok |-> ok]

\* u with the bytes b written at position pos
Put(u, pos, b) == [u EXCEPT !.s_ = write(u.s_, pos, b)]

(***************************************************************************)
(* The setters of basic_value.  Each takes the value u = [s_, pt_] and     *)
(* gives the value the call leaves, with ok = FALSE where it raises.       *)
(***************************************************************************)
\* basic_value::set_encoded_url
set_encoded_url(u, s) ==
    IF s = << >> THEN Ret(resize2(u, id_scheme, id_end, 0), TRUE)
    ELSE LET Parsed(pt) ==
                 IF ~pt.ok THEN Ret(u, FALSE)
                 ELSE Ret([s_ |-> write(a_resize(u.s_, Len(s)), 0, s),
                           pt_ |-> AsParts(pt)], TRUE)
         IN Parsed(parse_url(s))

\* basic_value::set_encoded_origin
set_encoded_origin(u, s) ==
    IF s = << >>
    THEN LET r == resize2(u, id_scheme, id_path, 0)
         IN Ret([r EXCEPT !.pt_.port = {}], TRUE)
    ELSE LET Parsed(pt) ==
                 IF ~pt.ok THEN Ret(u, FALSE)
                 ELSE LET r == resize2(u, id_scheme, id_path, Len(s))
                          p1 == split(r.pt_, id_scheme, length(pt, id_scheme))
                          p2 == split(p1, id_username, length(pt, id_username))
                          p3 == split(p2, id_password, length(pt, id_password))
                          p4 == split(p3, id_hostname, length(pt, id_hostname))
                          p5 == split(p4, id_port, length(pt, id_port))
                      IN Ret([s_ |-> write(r.s_, dest(r, id_scheme), s),
                              pt_ |-> [p5 EXCEPT !.port = pt.port]], TRUE)
         IN Parsed(parse_origin(s))

\* basic_value::set_scheme
set_scheme(u, s) ==
    IF s = << >> THEN Ret(resize(u, id_scheme, 0), TRUE)
    ELSE IF ~parse_scheme(s).ok THEN Ret(u, FALSE)
    ELSE LET r == resize(u, id_scheme, Len(s) + 1)
         IN Ret(Put(r, dest(r, id_scheme), s \o <<":">>), TRUE)

\* basic_value::set_encoded_authority
set_encoded_authority(u, s) ==
    IF s = << >>
    THEN LET r == resize2(u, id_username, id_path, 0)
         IN Ret([r EXCEPT !.pt_.port = {}], TRUE)
    ELSE LET Parsed(pt) ==
                 IF ~pt.ok THEN Ret(u, FALSE)
                 ELSE LET r == resize2(u, id_username, id_path, 2 + Len(s))
                          p1 == split(r.pt_, id_username, 2 + pt.len_username)
                          p2 == split(p1, id_password, pt.len_password)
                          p3 == split(p2, id_hostname, pt.len_hostname)
                      IN Ret([s_ |-> write(r.s_, dest(r, id_username),
                                           <<"/", "/">> \o s),
                              pt_ |-> [p3 EXCEPT !.port = pt.port]], TRUE)
         IN Parsed(parse_authority(s))

\* basic_value::set_encoded_userinfo
set_encoded_userinfo(u, s) ==
    IF s = << >>
    THEN IF length2(u.pt_, id_hostname, id_path) = 0
         THEN Ret(resize2(u, id_username, id_hostname, 0), TRUE)
         ELSE Ret(resize2(u, id_username, id_hostname, 2), TRUE)
    ELSE LET r1 == pct_parse(s, userinfo_nc_pct_set, 1)
             n0 == r1.p - 1
             r2 == pct_parse(s, userinfo_pct_set, r1.p)
         IN IF r1.ec \/ r2.ec \/ r2.p # Len(s) + 1 THEN Ret(u, FALSE)
            ELSE LET r == resize2(u, id_username, id_hostname, 2 + Len(s) + 1)
                 IN Ret([s_ |-> write(r.s_, dest(r, id_username),
                                      <<"/", "/">> \o s \o <<"@">>),
                         pt_ |-> split(r.pt_, id_username, n0)], TRUE)

\* the non-empty branches of set_username and set_encoded_username, with
\* the encoded user e
SetUserBytes(u, e) ==
    LET n == Len(e)
    IN IF length(u.pt_, id_password) # 0
       THEN LET r == resize(u, id_username, 2 + n)
            IN Ret(Put(r, dest(r, id_username) + 2, e), TRUE)
       ELSE LET r == resize(u, id_username, 2 + n + 1)
            IN Ret([s_ |-> write(r.s_, dest(r, id_username),
                                 <<"/", "/">> \o e \o <<"@">>),
                    pt_ |-> split(r.pt_, id_username, 2 + n)], TRUE)

\* basic_value::set_username
set_username(u, s) ==
    IF s = << >>
    THEN IF length(u.pt_, id_username) = 0 THEN Ret(u, TRUE)
         ELSE IF length(u.pt_, id_password) = 1
         THEN Ret(resize2(u, id_username, id_hostname, 2), TRUE)
         ELSE Ret(resize(u, id_username, 2), TRUE)
    ELSE SetUserBytes(u, pct_encode(s, userinfo_nc_pct_set))

\* basic_value::set_encoded_username
set_encoded_username(u, s) ==
    IF s = << >> THEN set_username(u, s)
    ELSE IF ~pct_validate(s, userinfo_nc_pct_set) THEN Ret(u, FALSE)
    ELSE SetUserBytes(u, s)

\* the non-empty branches of set_password and set_encoded_password, with
\* the encoded password e
SetPasswordBytes(u, e) ==
    LET n == Len(e)
    IN IF length(u.pt_, id_username) # 0
       THEN LET r == resize(u, id_password, 1 + n + 1)
            IN Ret(Put(r, dest(r, id_password), <<":">> \o e \o <<"@">>), TRUE)
       ELSE LET r == resize2(u, id_username, id_hostname, 2 + 1 + n + 1)
            IN Ret([s_ |-> write(r.s_, dest(r, id_username),
                                 <<"/", "/", ":">> \o e \o <<"@">>),
                    pt_ |-> split(r.pt_, id_username, 2)], TRUE)

\* basic_value::set_password
set_password(u, s) ==
    IF s = << >>
    THEN IF length(u.pt_, id_password) = 0 THEN Ret(u, TRUE)
         ELSE IF length(u.pt_, id_username) = 2
         THEN Ret(resize(u, id_password, 0), TRUE)
         ELSE LET r == resize(u, id_password, 1)
              IN Ret(Put(r, dest(r, id_password), <<"@">>), TRUE)
    ELSE SetPasswordBytes(u, pct_encode(s, userinfo_pct_set))

\* basic_value::set_encoded_password
set_encoded_password(u, s) ==
    IF s = << >> THEN set_password(u, s)
    ELSE IF s[1] = ":" THEN Ret(u, FALSE)
    ELSE IF ~pct_validate(s, userinfo_pct_set) THEN Ret(u, FALSE)
    ELSE SetPasswordBytes(u, s)

\* basic_value::set_encoded_host
set_encoded_host(u, s) ==
    IF s = << >>
    THEN LET r == resize2(u, id_hostname, id_path, 0)
         IN Ret([r EXCEPT !.pt_.port = {}], TRUE)
    ELSE LET Parsed(pt) ==
                 IF ~pt.ok THEN Ret(u, FALSE)
                 ELSE IF length2(u.pt_, id_username, id_path) = 0
                 THEN LET r == resize(u, id_username, 2 + Len(s))
                          p1 == split(r.pt_, id_username, 2)
                          p2 == split(p1, id_password, 0)
                          p3 == split(p2, id_hostname, pt.len_hostname)
                      IN Ret([s_ |-> write(r.s_, dest(r, id_username),
                                           <<"/", "/">> \o s),
                              pt_ |-> [p3 EXCEPT !.host = pt.host,
                                                 !.port = pt.port]], TRUE)
                 ELSE LET r == resize2(u, id_hostname, id_path, Len(s))
                          p1 == split(r.pt_, id_hostname, pt.len_hostname)
                      IN Ret([s_ |-> write(r.s_, dest(r, id_hostname), s),
                              pt_ |-> [p1 EXCEPT !.host = pt.host,
                                                 !.port = pt.port]], TRUE)
         IN Parsed(parse_host(s))

\* basic_value::encoded_host
encoded_host(u) == get2(u, id_hostname, id_path)

\* basic_value::set_hostname
set_hostname(u, s) ==
    IF s = << >> THEN Ret(resize(u, id_hostname, 0), TRUE)
    ELSE LET e == pct_encode(s, reg_name_pct_set)
             r == resize(u, id_hostname, Len(e))
             Parsed(w, pt) ==
                 IF ~pt.ok THEN Ret(w, FALSE)
                 ELSE Ret([w EXCEPT !.pt_.host = pt.host], TRUE)
             Written(w) == Parsed(w, parse_hostname(encoded_host(w)))
         IN Written(Put(r, dest(r, id_hostname), e))

\* basic_value::set_encoded_hostname
set_encoded_hostname(u, s) ==
    IF s = << >> THEN set_hostname(u, s)
    ELSE LET Parsed(pt) ==
                 IF ~pt.ok THEN Ret(u, FALSE)
                 ELSE LET r == resize(u, id_hostname, Len(s))
                          w == Put(r, dest(r, id_hostname), s)
                      IN Ret([w EXCEPT !.pt_.host = pt.host], TRUE)
         IN Parsed(parse_hostname(s))

\* basic_value::set_port; num is an optional<unsigned short>
set_port(u, num) ==
    IF num = {}
    THEN LET r == resize(u, id_port, 0)
         IN Ret([r EXCEPT !.pt_.port = {}], TRUE)
    ELSE LET s == port_string_of(CHOOSE n \in num : TRUE)
         IN IF length2(u.pt_, id_username, id_path) = 0
            THEN LET r == resize(u, id_username, 3 + Len(s))
                     p1 == split(r.pt_, id_username, 2)
                     p2 == split(p1, id_password, 0)
                     p3 == split(p2, id_hostname, 0)
                 IN Ret([s_ |-> write(r.s_, dest(r, id_username),
                                      <<"/", "/", ":">> \o s),
                         pt_ |-> [p3 EXCEPT !.port = num]], TRUE)
            ELSE LET r == resize(u, id_port, 1 + Len(s))
                     w == Put(r, dest(r, id_port), <<":">> \o s)
                 IN Ret([w EXCEPT !.pt_.port = num], TRUE)

\* basic_value::set_port_string
set_port_string(u, s) ==
    IF s = << >> THEN set_port(u, {})
    ELSE LET pt == parse_port(s)
         IN IF ~pt.ok THEN Ret(u, FALSE)
            ELSE set_port(u, pt.port)

\* basic_value::set_encoded_path
set_encoded_path(u, s) ==
    IF s = << >> THEN Ret(resize2(u, id_path, id_query, 0), TRUE)
    ELSE IF ~parse_path_abempty(s).ok THEN Ret(u, FALSE)
    ELSE LET r == resize2(u, id_path, id_query, Len(s))
         IN Ret(Put(r, dest(r, id_path), s), TRUE)

\* the non-empty branches of the query setters, with the encoded query e
SetQueryBytes(u, e) ==
    LET r == resize(u, id_query, 1 + Len(e))
    IN Ret(Put(r, dest(r, id_query), <<"?">> \o e), TRUE)

\* basic_value::set_query
set_query(u, s) ==
    IF s = << >> THEN Ret(resize(u, id_query, 0), TRUE)
    ELSE SetQueryBytes(u,
            pct_encode(IF s[1] = "?" THEN Tail(s) ELSE s, query_pct_set))

\* basic_value::set_encoded_query
set_encoded_query(u, s) ==
    IF s = << >> THEN Ret(resize(u, id_query, 0), TRUE)
    ELSE LET q == IF s[1] = "?" THEN Tail(s) ELSE s
         IN IF ~pct_validate(q, query_pct_set) THEN Ret(u, FALSE)
            ELSE SetQueryBytes(u, q)

\* the non-empty branches of the fragment setters, with the encoded
\* fragment e
SetFragmentBytes(u, e) ==
    LET r == resize(u, id_frag, 1 + Len(e))
    IN Ret(Put(r, dest(r, id_frag), <<"#">> \o e), TRUE)

\* basic_value::set_fragment
set_fragment(u, s) ==
    IF s = << >> THEN Ret(resize(u, id_frag, 0), TRUE)
    ELSE SetFragmentBytes(u, pct_encode(s, frag_pct_set))

\* basic_value::set_encoded_fragment
set_encoded_fragment(u, s) ==
    IF s = << >> THEN Ret(resize(u, id_frag, 0), TRUE)
    ELSE IF ~pct_validate(s, frag_pct_set) THEN Ret(u, FALSE)
    ELSE SetFragmentBytes(u, s)

\* basic_value::set_fragment_part
set_fragment_part(u, s) ==
    IF s = << >> THEN set_fragment(u, s)
    ELSE IF s[1] # "#" THEN Ret(u, FALSE)
    ELSE IF ~pct_validate(Tail(s), frag_pct_set) THEN Ret(u, FALSE)
    ELSE SetFragmentBytes(u, Tail(s))

(***************************************************************************)
(* The getters of basic_value.  Each gives the set of the results the call *)
(* can return: one result, except where the code steps outside its view.   *)
(***************************************************************************)
\* string_view::remove_prefix(n) with n > size() is undefined: the two
\* results stand for an arbitrary one
Undefined == {<< >>, <<JUNK>>}

\* basic_value::encoded_userinfo
encoded_userinfo(u) ==
    LET s == get2(u, id_username, id_hostname)
        s1 == IF s # << >> /\ s[Len(s)] = "@" THEN Sub(s, 1, Len(s) - 1) ELSE s
    IN IF s = << >> THEN {s}
       ELSE IF Len(s1) < 2 THEN Undefined
       ELSE {Tail0(s1, 2)}

\* basic_value::encoded_username
encoded_username(u) ==
    LET s == get(u, id_username)
    IN IF s = << >> THEN {s}
       ELSE IF Len(s) < 2 THEN Undefined
       ELSE {Tail0(s, 2)}

\* basic_value::encoded_password
encoded_password(u) ==
    LET s == get(u, id_password)
        s1 == Sub(s, 1, Len(s) - 1)
    IN IF Len(s) <= 1 THEN {<< >>}
       ELSE IF s1[1] = ":" THEN {Tail(s1)}
       ELSE {s1}

\* basic_value::encoded_url
encoded_url(u) == {get2(u, id_scheme, id_end)}

\* basic_value::encoded_origin
encoded_origin(u) == {get2(u, id_scheme, id_path)}

\* basic_value::encoded_authority
encoded_authority(u) ==
    LET s == get2(u, id_username, id_path)
    IN IF s = << >> THEN {s}
       ELSE IF Len(s) < 2 THEN Undefined
       ELSE {Tail0(s, 2)}

\* basic_value::encoded_hostname
encoded_hostname(u) == {get(u, id_hostname)}

\* basic_value::encoded_path
encoded_path(u) == {get(u, id_path)}

\* basic_value::encoded_query
encoded_query(u) == {get2(u, id_query, id_frag)}

\* basic_value::encoded_fragment
encoded_fragment(u) ==
    LET s == get2(u, id_frag, id_end)
    IN IF s = << >> THEN {s} ELSE {Tail(s)}

\* basic_value::port_string
port_string(u) ==
    LET s == get(u, id_port)
    IN IF s = << >> THEN {s} ELSE {Tail(s)}


(***************************************************************************)
(* The segments range (basic_value::segments_type).  An iterator is the    *)
(* pair of its members off_ and n_.                                        *)
(***************************************************************************)
\* the byte s_[off] of the value u
At(u, off) == IF off + 1 \in DOMAIN u.s_ THEN u.s_[off + 1] ELSE JUNK

\* the end of the scan that starts at byte position p: the first position
\* in p..(end - 1) whose byte is in S, or the larger of p and end
RECURSIVE Scan(_, _, _, _)
Scan(u, p, end, S) ==
    IF p >= end THEN p
    ELSE IF At(u, p) \in S THEN p
    ELSE Scan(u, p + 1, end, S)

\* segments_type::iterator::parse
seg_parse(u, off) ==
    LET end == u.pt_.offset[id_frag]
        p == IF At(u, off) = "/" THEN off + 1 ELSE off
    IN [off |-> off, n |-> Scan(u, p, end, {"/"}) - off]

\* segments_type::iterator::iterator(v, end)
seg_iterator(u, end) ==
    IF end \/ u.pt_.nseg = 0
    THEN [off |-> u.pt_.offset[id_query], n |-> 0]
    ELSE seg_parse(u, u.pt_.offset[id_path])

\* segments_type::begin
seg_begin(u) == seg_iterator(u, FALSE)

\* segments_type::end
seg_end(u) == seg_iterator(u, TRUE)

\* segments_type::iterator::operator*
seg_deref(u, it) ==
    LET s == Sub(u.s_, it.off + 1, it.off + it.n)
    IN IF s # << >> /\ s[1] = "/" THEN Tail(s) ELSE s

\* segments_type::iterator::operator++
seg_increment(u, it) ==
    LET off == it.off + it.n
    IN IF off = u.pt_.offset[id_frag] THEN [off |-> off, n |-> 0]
       ELSE seg_parse(u, off)

\* comparison of two iterators of one container: by position
iter_equal(a, b) == a.off = b.off

\* the iterator that k increments of it give
RECURSIVE seg_advance(_, _, _)
seg_advance(u, it, k) ==
    IF k = 0 THEN it ELSE seg_advance(u, seg_increment(u, it), k - 1)

(***************************************************************************)
(* The params range (basic_value::params_type).  An iterator is its        *)
(* members off_, nk_ and nv_, with ok: every BOOST_ASSERT evaluated while  *)
(* it was computed held.  The members are the ones a build without         *)
(* assertions computes.                                                    *)
(***************************************************************************)
\* params_type::iterator::parse
par_parse(u, off, ok) ==
    LET end == u.pt_.offset[id_end]
        buf == Sub(u.s_, 1, end)
        first == IF off = u.pt_.offset[id_query]
                 THEN At(u, off) = "?" ELSE At(u, off) = "&"
        Value(k, v) ==
            [off |-> off, nk |-> k.p - 1 - off, nv |-> v.p - k.p,
             ok |-> ok /\ first /\ ~k.ec /\ At(u, k.p - 1) = "=" /\ ~v.ec]
        Key(k) ==
            IF k.p - 1 = end
            THEN [off |-> off, nk |-> k.p - 1 - off, nv |-> 0,
                  ok |-> ok /\ first /\ ~k.ec]
            ELSE Value(k, pct_parse(buf, qval_pct_set, k.p + 1))
    IN Key(pct_parse(buf, qkey_pct_set, off + 2))

\* params_type::iterator::iterator(v, end)
par_iterator(u, end) ==
    IF end \/ u.pt_.nparam = 0
    THEN [off |-> u.pt_.offset[id_frag], nk |-> 0, nv |-> 0, ok |-> TRUE]
    ELSE par_parse(u, u.pt_.offset[id_query], TRUE)

\* params_type::begin
par_begin(u) == par_iterator(u, FALSE)

\* params_type::end
par_end(u) == par_iterator(u, TRUE)

\* params_type::iterator::operator*: the key, and the set of values the
\* view can read (its length is nv_ - 1, which wraps when nv_ is 0)
par_deref(u, it) ==
    [key |-> Sub(u.s_, it.off + 2, it.off + it.nk),
     value |-> IF it.nv = 0 THEN Undefined
               ELSE {Sub(u.s_, it.off + it.nk + 2, it.off + it.nk + it.nv)},
     ok |-> /\ it.ok
            /\ it.nk > 0
            /\ IF it.off = u.pt_.offset[id_query]
               THEN At(u, it.off) = "?" ELSE At(u, it.off) = "&"
            /\ it.nv = 0 \/ At(u, it.off + it.nk) = "="]

\* params_type::iterator::operator++
par_increment(u, it) ==
    LET off == it.off + it.nv + it.nk
        ok == it.ok /\ it.off # u.pt_.offset[id_frag]
    IN IF off = u.pt_.offset[id_frag]
       THEN [off |-> off, nk |-> 0, nv |-> 0, ok |-> ok]
       ELSE par_parse(u, off, ok)

\* the iterator that k increments of it give
RECURSIVE par_advance(_, _, _)
par_advance(u, it, k) ==
    IF k = 0 THEN it ELSE par_advance(u, par_increment(u, it), k - 1)

\* detail::key_equal
key_equal(a, b) == a = b

\* params_type::count, the loop run from the iterator it: the count, or -1
\* when the loop has not met end() within the buffer
RECURSIVE par_count(_, _, _)
par_count(u, it, key) ==
    IF iter_equal(it, par_end(u)) THEN 0
    ELSE IF it.off > u.pt_.offset[id_end] THEN -1
    ELSE LET Rest(n) ==
                 IF n < 0 THEN -1
                 ELSE n + (IF key_equal(par_deref(u, it).key, key)
                           THEN 1 ELSE 0)
         IN Rest(par_count(u, par_increment(u, it), key))

(***************************************************************************)
(* The userinfo parser (rfc/impl/userinfo.ipp).  A userinfo is its members *)
(* str, user and pass; pass is a set, empty when the optional is not set.  *)
(***************************************************************************)
\* a default-constructed rfc::userinfo
NoUserinfo == [str |-> << >>, user |-> << >>, pass |-> {}]

\* optional<bnf::literal<':'>> at position p of s: it holds a value when
\* the byte is there, and never fails
colon_at(s, p) == p <= Len(s) /\ s[p] = ":"

\* rfc::parse(start, end, ec, t) with a pass that is set whether or not
\* the colon was there
parse_userinfo_pass_set(s, t) ==
    LET Pass(user, pass) ==
            IF pass.ec THEN [it |-> 0, ec |-> TRUE, t |-> t]
            ELSE [it |-> pass.p - 1, ec |-> FALSE,
                  t |-> [str |-> Sub(s, 1, pass.p - 1),
                         user |-> Sub(s, 1, user.p - 1),
                         pass |-> {Sub(s, user.p + 1, pass.p - 1)}]]
        User(user) ==
            IF user.ec THEN [it |-> 0, ec |-> TRUE, t |-> t]
            ELSE Pass(user, pct_parse(s, userinfo_pct_set,
                        IF colon_at(s, user.p) THEN user.p + 1 ELSE user.p))
    IN User(pct_parse(s, userinfo_nc_pct_set, 1))

\* rfc::parse(start, end, ec, t) for a userinfo, on the bytes s of
\* [start, end): the position it - start, ec, and t after the call
parse_userinfo(s, t) ==
    LET Pass(user, pass) ==
            IF pass.ec THEN [it |-> 0, ec |-> TRUE, t |-> t]
            ELSE [it |-> pass.p - 1, ec |-> FALSE,
                  t |-> [str |-> Sub(s, 1, pass.p - 1),
                         user |-> Sub(s, 1, user.p - 1),
                         pass |-> IF colon_at(s, user.p)
                                  THEN {Sub(s, user.p + 1, pass.p - 1)}
                                  ELSE {}]]
        User(user) ==
            IF user.ec THEN [it |-> 0, ec |-> TRUE, t |-> t]
            ELSE Pass(user, pct_parse(s, userinfo_pct_set,
                        IF colon_at(s, user.p) THEN user.p + 1 ELSE user.p))
    IN User(pct_parse(s, userinfo_nc_pct_set, 1))

(***************************************************************************)
(* Backward iteration.                                                     *)
(***************************************************************************)
\* the loop while(--p > begin) of both operator--, entered with --p = p:
\* the position of the byte c it stops at, or the position <= begin it
\* leaves the loop with
RECURSIVE ScanBack(_, _, _, _)
ScanBack(u, p, begin, c) ==
    IF p <= begin THEN p
    ELSE IF At(u, p) = c THEN p
    ELSE ScanBack(u, p - 1, begin, c)

\* segments_type::iterator::operator--
seg_decrement(u, it) ==
    LET begin == u.pt_.offset[id_path]
        Found(p) ==
            IF p > begin THEN seg_parse(u, p)
            ELSE [off |-> p, n |-> it.off - p]
    IN Found(ScanBack(u, it.off - 1, begin, "/"))

\* params_type::iterator::operator--
par_decrement(u, it) ==
    LET begin == u.pt_.offset[id_query]
        ok == it.ok /\ it.off # begin
        Found(p) ==
            IF p > begin THEN par_parse(u, p, ok)
            ELSE [off |-> p, nk |-> it.nk, nv |-> it.nv,
                  ok |-> ok /\ At(u, p) = "?"]
    IN Found(ScanBack(u, it.off - 1, begin, "&"))

(***************************************************************************)
(* The BOOST_ASSERTs of the container: each operator is true when every    *)
(* assertion the named function evaluates on the value u holds.            *)
(***************************************************************************)
\* s.back() == c; false for the empty view, which has no last byte
back_is(s, c) == s # << >> /\ s[Len(s)] = c

\* s.size() >= 2 and s.substr(0, 2) == "//"
has_slashes(s) == Len(s) >= 2 /\ s[1] = "/" /\ s[2] = "/"

\* basic_value::scheme
assert_scheme(u) ==
    get(u, id_scheme) # << >> => back_is(get(u, id_scheme), ":")

\* basic_value::encoded_authority
assert_encoded_authority(u) ==
    get2(u, id_username, id_path) # << >>
        => has_slashes(get2(u, id_username, id_path))

\* basic_value::encoded_userinfo
assert_encoded_userinfo(u) ==
    LET s == get2(u, id_username, id_hostname)
    IN s # << >> =>
         has_slashes(IF back_is(s, "@") THEN Sub(s, 1, Len(s) - 1) ELSE s)

\* basic_value::encoded_username
assert_encoded_username(u) ==
    get(u, id_username) # << >> => has_slashes(get(u, id_username))

\* basic_value::encoded_password
assert_encoded_password(u) ==
    LET s == get(u, id_password)
    IN s # << >> => back_is(s, "@")

\* basic_value::port_string
assert_port_string(u) ==
    get(u, id_port) # << >> => get(u, id_port)[1] = ":"

\* the four assertions at the head of set_username("") and of
\* set_password("")
assert_userinfo_regions(u) ==
    /\ back_is(get(u, id_password), "@")
    /\ has_slashes(get(u, id_username))

\* basic_value::set_username(s)
assert_set_username(u, s) ==
    IF s = << >>
    THEN length(u.pt_, id_username) # 0 => assert_userinfo_regions(u)
    ELSE length(u.pt_, id_password) # 0
            => back_is(get(u, id_password), "@")

\* basic_value::set_password(s)
assert_set_password(u, s) ==
    IF s = << >>
    THEN length(u.pt_, id_password) # 0 => assert_userinfo_regions(u)
    ELSE length(u.pt_, id_username) # 0
            => has_slashes(get(u, id_username))

\* basic_value::set_encoded_authority(s): the port length after the splits
assert_set_encoded_authority(u, s) ==
    s # << >> /\ parse_authority(s).ok
        => length(set_encoded_authority(u, s).pt_, id_port)
             = parse_authority(s).len_port

\* basic_value::set_encoded_host(s): the lengths parsed, and the port
\* length after the splits
assert_set_encoded_host(u, s) ==
    s # << >> /\ parse_host(s).ok
        => /\ Len(s) = parse_host(s).len_hostname + parse_host(s).len_port
           /\ length(set_encoded_host(u, s).pt_, id_port)
                = parse_host(s).len_port

\* the params iterators from it to end(), each dereferenced, as the loops
\* of contains, count and find go over them
RECURSIVE assert_params(_, _)
assert_params(u, it) ==
    \/ iter_equal(it, par_end(u))
    \/ /\ it.off <= u.pt_.offset[id_end]
       /\ par_deref(u, it).ok
       /\ assert_params(u, par_increment(u, it))

(***************************************************************************)
(* The arguments the calls are made with.                                  *)
(***************************************************************************)
UrlInputs ==
    {<< >>,
     <<"x", ":", "a">>,
     <<"/", "/", "h", "/", "/", "a">>,
     <<"/", "/", "u", ":", "p", "@", "h">>,
     <<"x", ":", ":">>,
     <<"?", "k", "&", "l">>}

OriginInputs == {<< >>, <<"x", ":", "/", "/", "h">>, <<"/", "a">>}

SchemeInputs == {<< >>, <<"x">>, <<"1">>}

AuthorityInputs ==
    {<< >>, <<"h">>, <<"u", "@", "h", ":", "8">>, <<"h", "/">>}

UserinfoInputs == {<< >>, <<"u">>, <<"u", ":", "p">>, <<"u", "@">>}

UsernameInputs == {<< >>, <<"u">>, <<":">>}

PasswordInputs == {<< >>, <<"p">>, <<":", "p">>}

HostInputs == {<< >>, <<"h">>, <<"h", ":", "8">>, <<"h", "@">>}

HostnameInputs == {<< >>, <<"h">>, <<"[", ":", ":", "]">>, <<"@">>}

PortInputs == {{}, {8}}

PortStringInputs ==
    {<< >>, <<"0", "8">>, <<"9", "9", "9", "9", "9">>, <<"x">>}

PathInputs == {<< >>, <<"/", "/">>, <<"/", "a">>, <<"a">>}

QueryInputs == {<< >>, <<"k">>, <<"#">>}

FragmentInputs == {<< >>, <<"f">>, <<"#", "f">>}

(***************************************************************************)
(* The state machine: one action per setter.  Under Spec every call is     *)
(* made, whether it returns or raises; under SpecOk only the calls that    *)
(* return are made (the sequences of successful mutations).                *)
(***************************************************************************)
\* the value held by the variables
U == [s_ |-> s_, pt_ |-> pt_]

Init ==
    /\ s_ = <<NUL>>
    /\ pt_ = EmptyParts
    /\ start_ = << >>
    /\ t_ = NoUserinfo
    /\ ret_ = [it |-> 0, ec |-> FALSE]

\* a call with outcome r is made; returns says that only a call that
\* returns is made
Do(returns, r) ==
    /\ returns => r.ok
    /\ r.pt_.offset[id_end] <= MaxLen
    /\ s_' = r.s_
    /\ pt_' = r.pt_
    /\ UNCHANGED parse_vars

SetEncodedUrl(returns) ==
    \E s \in UrlInputs : Do(returns, set_encoded_url(U, s))

SetEncodedOrigin(returns) ==
    \E s \in OriginInputs : Do(returns, set_encoded_origin(U, s))

SetScheme(returns) ==
    \E s \in SchemeInputs : Do(returns, set_scheme(U, s))

SetEncodedAuthority(returns) ==
    \E s \in AuthorityInputs : Do(returns, set_encoded_authority(U, s))

SetEncodedUserinfo(returns) ==
    \E s \in UserinfoInputs : Do(returns, set_encoded_userinfo(U, s))

SetUsername(returns) ==
    \E s \in UsernameInputs : Do(returns, set_username(U, s))

SetEncodedUsername(returns) ==
    \E s \in UsernameInputs : Do(returns, set_encoded_username(U, s))

SetPassword(returns) ==
    \E s \in PasswordInputs : Do(returns, set_password(U, s))

SetEncodedPassword(returns) ==
    \E s \in PasswordInputs : Do(returns, set_encoded_password(U, s))

SetEncodedHost(returns) ==
    \E s \in HostInputs : Do(returns, set_encoded_host(U, s))

SetHostname(returns) ==
    \E s \in HostnameInputs : Do(returns, set_hostname(U, s))

SetEncodedHostname(returns) ==
    \E s \in HostnameInputs : Do(returns, set_encoded_hostname(U, s))

SetPort(returns) ==
    \E num \in PortInputs : Do(returns, set_port(U, num))

SetPortString(returns) ==
    \E s \in PortStringInputs : Do(returns, set_port_string(U, s))

SetEncodedPath(returns) ==
    \E s \in PathInputs : Do(returns, set_encoded_path(U, s))

SetQuery(returns) ==
    \E s \in QueryInputs : Do(returns, set_query(U, s))

SetEncodedQuery(returns) ==
    \E s \in QueryInputs : Do(returns, set_encoded_query(U, s))

SetFragment(returns) ==
    \E s \in FragmentInputs : Do(returns, set_fragment(U, s))

SetEncodedFragment(returns) ==
    \E s \in FragmentInputs : Do(returns, set_encoded_fragment(U, s))

SetFragmentPart(returns) ==
    \E s \in FragmentInputs : Do(returns, set_fragment_part(U, s))

Next ==
    \/ SetEncodedUrl(FALSE)
    \/ SetEncodedOrigin(FALSE)
    \/ SetScheme(FALSE)
    \/ SetEncodedAuthority(FALSE)
    \/ SetEncodedUserinfo(FALSE)
    \/ SetUsername(FALSE)
    \/ SetEncodedUsername(FALSE)
    \/ SetPassword(FALSE)
    \/ SetEncodedPassword(FALSE)
    \/ SetEncodedHost(FALSE)
    \/ SetHostname(FALSE)
    \/ SetEncodedHostname(FALSE)
    \/ SetPort(FALSE)
    \/ SetPortString(FALSE)
    \/ SetEncodedPath(FALSE)
    \/ SetQuery(FALSE)
    \/ SetEncodedQuery(FALSE)
    \/ SetFragment(FALSE)
    \/ SetEncodedFragment(FALSE)
    \/ SetFragmentPart(FALSE)

Spec == Init /\ [][Next]_vars

NextOk ==
    \/ SetEncodedUrl(TRUE)
    \/ SetEncodedOrigin(TRUE)
    \/ SetScheme(TRUE)
    \/ SetEncodedAuthority(TRUE)
    \/ SetEncodedUserinfo(TRUE)
    \/ SetUsername(TRUE)
    \/ SetEncodedUsername(TRUE)
    \/ SetPassword(TRUE)
    \/ SetEncodedPassword(TRUE)
    \/ SetEncodedHost(TRUE)
    \/ SetHostname(TRUE)
    \/ SetEncodedHostname(TRUE)
    \/ SetPort(TRUE)
    \/ SetPortString(TRUE)
    \/ SetEncodedPath(TRUE)
    \/ SetQuery(TRUE)
    \/ SetEncodedQuery(TRUE)
    \/ SetFragment(TRUE)
    \/ SetEncodedFragment(TRUE)
    \/ SetFragmentPart(TRUE)

\* the longest buffer the calls of the resize overloads alone may produce
MaxResize == 3

\* the longest range [start, end) the userinfo parser is called with
MaxInput == 4

\* set_encoded_url with a URL the resize engine is then run on
ParseUrl ==
    \E s \in UrlInputs : Len(s) <= MaxResize /\ Do(TRUE, set_encoded_url(U, s))

\* the outcome r of a call of a resize overload
Resized(r) ==
    /\ r.pt_.offset[id_end] <= MaxResize
    /\ s_' = r.s_
    /\ pt_' = r.pt_
    /\ UNCHANGED parse_vars

\* a call of resize(id, new_size) that does not raise too_large
Resize ==
    \E id \in id_scheme..id_frag, new_size \in 0..MaxResize :
        /\ ~too_large(U, length(pt_, id), new_size)
        /\ \E r \in {resize(U, id, new_size)} : Resized(r)

\* the ranges <<first, last>> the setters call resize(first, last, n) with
Ranges ==
    {<<id_scheme, id_end>>, <<id_scheme, id_path>>, <<id_username, id_path>>,
     <<id_username, id_hostname>>, <<id_hostname, id_path>>,
     <<id_path, id_query>>}

\* a call of resize(first, last, new_size) that does not raise too_large
Resize2 ==
    \E range \in Ranges, new_size \in 0..MaxResize :
        /\ ~too_large(U, length2(pt_, range[1], range[2]), new_size)
        /\ \E r \in {resize2(U, range[1], range[2], new_size)} : Resized(r)

\* the resize engine on its own: values parsed by set_encoded_url, then any
\* calls of the two overloads
NextResize ==
    \/ ParseUrl
    \/ Resize
    \/ Resize2

SpecResize == Init /\ [][NextResize]_vars

\* the bytes the ranges [start, end) are made of
InputBytes == {"u", ":", "%", "4", "@"}

\* the ranges [start, end) the userinfo parser is called with
Inputs == UNION {[1..n -> InputBytes] : n \in 0..MaxInput}

\* the userinfo objects the parser is handed: a new one and a used one
UserinfoObjects ==
    {NoUserinfo, [str |-> <<"a", ":">>, user |-> <<"a">>, pass |-> {<< >>}]}

\* the userinfo parser on its own: the container is left as constructed
InitParse ==
    /\ s_ = <<NUL>>
    /\ pt_ = EmptyParts
    /\ start_ \in Inputs
    /\ t_ \in UserinfoObjects
    /\ ret_ = [it |-> 0, ec |-> FALSE]

\* a call it = rfc::parse(start, end, ec, t)
ParseUserinfo ==
    /\ \E r \in {parse_userinfo(start_, t_)} :
         /\ t_' = r.t
         /\ ret_' = [it |-> r.it, ec |-> r.ec]
    /\ UNCHANGED <<s_, pt_, start_>>

NextParse == ParseUserinfo

SpecParse == InitParse /\ [][NextParse]_vars

SpecOk == Init /\ [][NextOk]_vars

(***************************************************************************)
(* Properties.                                                             *)
(***************************************************************************)
\* the stored string buf[0..len)
Url == Sub(s_, 1, pt_.offset[id_end])

\* the first two bytes of s are the authority prefix
BeginsWithSlashes(s) == Len(s) >= 2 /\ s[1] = "/" /\ s[2] = "/"

\* C1: after any sequence of successful mutations from the empty URL the
\* stored string parses as an RFC 3986 URI-reference.
C1_UriReference == IsUriReference(Url)

C3_AuthorityPrefix ==
    get2(U, id_username, id_path) # << >>
        => BeginsWithSlashes(Tail0(Url, pt_.offset[id_username]))

\* C4: with an authority the path is empty or begins with '/'; without
\* one the path does not begin with "//".
C4_PathConstraint ==
    LET path == get(U, id_path)
    IN IF BeginsWithSlashes(get(U, id_username))
       THEN path = << >> \/ path[1] = "/"
       ELSE ~BeginsWithSlashes(path)

\* C5: the user region is empty or begins with "//"; the password region
\* is empty or ends with exactly one '@'; a user longer than "//" has a
\* non-empty password region; a password region of more than one byte
\* begins with ':'.
C5_UserinfoRegions ==
    LET user == get(U, id_username)
        pass == get(U, id_password)
    IN /\ user = << >> \/ BeginsWithSlashes(user)
       /\ pass = << >> \/ (pass[Len(pass)] = "@" /\ Count(pass, "@") = 1)
       /\ Len(user) > 2 => pass # << >>
       /\ Len(pass) > 1 => pass[1] = ":"

\* C6: after set_encoded_userinfo(s) returns for a non-empty s, the user
\* is s up to its first ':', the password is what follows that ':', and
\* the userinfo is s.
C6_UserinfoSplit ==
    \A s \in UserinfoInputs \ {<< >>} :
        LET r == set_encoded_userinfo(U, s)
            c == Find(s, {":"}, 1)
        IN r.ok =>
            /\ encoded_username(r) = {Sub(s, 1, c - 1)}
            /\ encoded_password(r) = {Tail0(s, c)}
            /\ encoded_userinfo(r) = {s}

\* C7: after every successful mutation host_type is none for an empty
\* host region and otherwise the kind the host region parses as.
C7_HostType == pt_.host = HostKind(get(U, id_hostname))

\* C8: port_number is present exactly when the port region, after its
\* ':', parses as a decimal in [0, 65535].
C8_PortNumber ==
    LET p == get(U, id_port)
    IN (pt_.port # {}) <=> (p # << >> /\ PortNumber(Tail0(p, 1)) # {})

\* C9: setting the port from a digit string s stores ':' and the bytes of
\* s, leading zeros included, and records its numeric value.
C9_PortStringStored ==
    \A s \in PortStringInputs :
        (s # << >> /\ AllIn(s, DIGIT) /\ PortNumber(s) # {}) =>
            LET r == set_port_string(U, s)
            IN /\ r.ok
               /\ get(r, id_port) = <<":">> \o s
               /\ r.pt_.port = PortNumber(s)

\* C10: setting the port from the empty string or from digits beyond
\* 65535 keeps the port: the region is ':' and the string, and
\* port_number is cleared.
C10_PortKept ==
    \A s \in PortStringInputs :
        (AllIn(s, DIGIT) /\ PortNumber(s) = {}) =>
            LET r == set_port_string(U, s)
            IN /\ r.ok
               /\ get(r, id_port) = <<":">> \o s
               /\ r.pt_.port = {}

\* the call that gave r raised and left the value as it was before it
Unchanged(r) == r.s_ = s_ /\ r.pt_ = pt_

\* C11: a setter that fails on its input leaves the buffer, the offset
\* table, port_number and host_type as they were before the call.
C11_StrongGuarantee ==
    LET Kept(r) == r.ok \/ Unchanged(r)
    IN /\ \A s \in UrlInputs : Kept(set_encoded_url(U, s))
       /\ \A s \in OriginInputs : Kept(set_encoded_origin(U, s))
       /\ \A s \in SchemeInputs : Kept(set_scheme(U, s))
       /\ \A s \in AuthorityInputs : Kept(set_encoded_authority(U, s))
       /\ \A s \in UserinfoInputs : Kept(set_encoded_userinfo(U, s))
       /\ \A s \in UsernameInputs : Kept(set_encoded_username(U, s))
       /\ \A s \in PasswordInputs : Kept(set_encoded_password(U, s))
       /\ \A s \in HostInputs : Kept(set_encoded_host(U, s))
       /\ \A s \in HostnameInputs : Kept(set_hostname(U, s))
       /\ \A s \in HostnameInputs : Kept(set_encoded_hostname(U, s))
       /\ \A s \in PortStringInputs : Kept(set_port_string(U, s))
       /\ \A s \in PathInputs : Kept(set_encoded_path(U, s))
       /\ \A s \in QueryInputs : Kept(set_encoded_query(U, s))
       /\ \A s \in FragmentInputs : Kept(set_encoded_fragment(U, s))
       /\ \A s \in FragmentInputs : Kept(set_fragment_part(U, s))

\* C12: on a URL with no authority set_encoded_path(s) with s beginning
\* with "//" fails and leaves the value unchanged.
C12_SlashSlashPath ==
    \A s \in PathInputs :
        (BeginsWithSlashes(s) /\ length2(pt_, id_username, id_path) = 0) =>
            LET r == set_encoded_path(U, s)
            IN ~r.ok /\ Unchanged(r)

\* C13: set_encoded_path(s) with a non-empty s returns exactly when s
\* matches the path production the URL selects: path-abempty with an
\* authority, else path-absolute for a leading '/', else path-rootless
\* with a scheme, else path-noscheme.
C13_PathProduction ==
    \A s \in PathInputs \ {<< >>} :
        set_encoded_path(U, s).ok
            <=> PathOk(s, length(pt_, id_scheme) > 0,
                       length2(pt_, id_username, id_path) > 0)

\* the first segment of the path p holds a ':'
ColonInFirstSegment(p) ==
    Find(p, {":"}, 1) < Find(p, {"/"}, 1)

\* C14: set_scheme("") on a URL with a scheme, no authority and a rootless
\* path whose first segment holds a ':' leaves a path that is a
\* path-noscheme, and a string that has no scheme.
C14_SchemeRemoval ==
    LET path == get(U, id_path)
    IN (/\ length(pt_, id_scheme) > 0
        /\ length2(pt_, id_username, id_path) = 0
        /\ path # << >> /\ path[1] # "/"
        /\ ColonInFirstSegment(path)) =>
            LET r == set_scheme(U, << >>)
            IN /\ r.ok
               /\ PathOk(get(r, id_path), FALSE, FALSE)
               /\ SchemeLen(Sub(r.s_, 1, r.pt_.offset[id_end])) = 0

\* the regions outside the userinfo are the same in r as in the value
\* before the call
RestKept(r) ==
    \A i \in {id_scheme, id_hostname, id_port, id_path, id_query, id_frag} :
        get(r, i) = get(U, i)

\* C15: set_username("") and set_password("") keep the '@' exactly when
\* the other part of the userinfo is still there, and keep the "//", the
\* host and the port.
C15_UserinfoRemoval ==
    LET user == get(U, id_username)
        pass == get(U, id_password)
        ru == set_username(U, << >>)
        rp == set_password(U, << >>)
    IN /\ ru.ok /\ RestKept(ru)
       /\ get(ru, id_username) = (IF user = << >> THEN << >> ELSE <<"/", "/">>)
       /\ get(ru, id_password) = (IF Len(pass) > 1 THEN pass ELSE << >>)
       /\ rp.ok /\ RestKept(rp)
       /\ get(rp, id_username) = user
       /\ get(rp, id_password) = (IF Len(user) > 2 THEN <<"@">> ELSE << >>)

\* C16: set_username(s) and set_encoded_username(s) that return leave a
\* URL with an authority and a userinfo, the empty s included: the user
\* region begins with "//" and the password region ends with '@'.
C16_UserAdded ==
    LET Added(r) ==
            r.ok => /\ BeginsWithSlashes(get(r, id_username))
                    /\ get(r, id_password) # << >>
                    /\ get(r, id_password)[Len(get(r, id_password))] = "@"
    IN \A s \in UsernameInputs :
        /\ Added(set_username(U, s))
        /\ Added(set_encoded_username(U, s))

\* C17: set_encoded_password(s) with a non-empty s returns exactly when s
\* is *( unreserved / pct-encoded / sub-delims / ":" ); when it returns
\* encoded_password() is s and the user region begins with "//".
C17_EncodedPassword ==
    \A s \in PasswordInputs \ {<< >>} :
        LET r == set_encoded_password(U, s)
        IN /\ r.ok <=> pct_validate(s, userinfo_pct_set)
           /\ r.ok => /\ encoded_password(r) = {s}
                      /\ BeginsWithSlashes(get(r, id_username))

\* set_encoded_X(encoded_X()) returned r: it returned and left the buffer
\* and the offset table as they were
Noop(r) == r.ok /\ r.s_ = s_ /\ r.pt_.offset = pt_.offset

\* C18: for each of url, origin, authority, userinfo, username, password,
\* host, hostname, path, query and fragment, setting the encoded component
\* to the value its getter returns succeeds and changes neither the buffer
\* nor the offset table.
C18_Idempotence ==
    /\ \A v \in encoded_url(U) : Noop(set_encoded_url(U, v))
    /\ \A v \in encoded_origin(U) : Noop(set_encoded_origin(U, v))
    /\ \A v \in encoded_authority(U) : Noop(set_encoded_authority(U, v))
    /\ \A v \in encoded_userinfo(U) : Noop(set_encoded_userinfo(U, v))
    /\ \A v \in encoded_username(U) : Noop(set_encoded_username(U, v))
    /\ \A v \in encoded_password(U) : Noop(set_encoded_password(U, v))
    /\ Noop(set_encoded_host(U, encoded_host(U)))
    /\ \A v \in encoded_hostname(U) : Noop(set_encoded_hostname(U, v))
    /\ \A v \in encoded_path(U) : Noop(set_encoded_path(U, v))
    /\ \A v \in encoded_query(U) : Noop(set_encoded_query(U, v))
    /\ \A v \in encoded_fragment(U) : Noop(set_encoded_fragment(U, v))

\* C19: for scheme, user, password, host, port, query and fragment,
\* removing the component, setting it to a valid value and removing it
\* again leaves the buffer that the first removal left.
C19_RemoveSetRemove ==
    LET Same(a, c) == c.ok /\ c.s_ = a.s_
        Scheme(a, v) == LET b == set_scheme(a, v)
                        IN b.ok => Same(a, set_scheme(b, << >>))
        User(a, v) == LET b == set_username(a, v)
                      IN b.ok => Same(a, set_username(b, << >>))
        Password(a, v) == LET b == set_password(a, v)
                          IN b.ok => Same(a, set_password(b, << >>))
        Host(a, v) == LET b == set_hostname(a, v)
                      IN b.ok => Same(a, set_hostname(b, << >>))
        Port(a, v) == LET b == set_port(a, v)
                      IN b.ok => Same(a, set_port(b, {}))
        Query(a, v) == LET b == set_query(a, v)
                       IN b.ok => Same(a, set_query(b, << >>))
        Fragment(a, v) == LET b == set_fragment(a, v)
                          IN b.ok => Same(a, set_fragment(b, << >>))
    IN /\ \A v \in SchemeInputs \ {<< >>} : Scheme(set_scheme(U, << >>), v)
       /\ \A v \in UsernameInputs \ {<< >>} : User(set_username(U, << >>), v)
       /\ \A v \in PasswordInputs \ {<< >>} : Password(set_password(U, << >>), v)
       /\ \A v \in HostnameInputs \ {<< >>} : Host(set_hostname(U, << >>), v)
       /\ \A v \in PortInputs \ {{}} : Port(set_port(U, {}), v)
       /\ \A v \in QueryInputs \ {<< >>} : Query(set_query(U, << >>), v)
       /\ \A v \in FragmentInputs \ {<< >>} : Fragment(set_fragment(U, << >>), v)

\* the raw byte strings the plain setters are tried with
RawInputs ==
    {<<"u">>, <<"?", "k">>, <<":">>, <<"@">>, <<"#">>, <<"%">>, <<NUL>>,
     <<"%", "4", "1">>}

\* C20: after set_username(raw), set_password(raw), set_hostname(raw),
\* set_query(raw) or set_fragment(raw) returns, percent-decoding the bytes
\* of the component's region between its delimiters gives raw.
C20_PlainRoundTrip ==
    LET RoundTrip(r, stored, raw) == r.ok => pct_decode(stored) = raw
        User(r, raw) == RoundTrip(r, Tail0(get(r, id_username), 2), raw)
        Password(r, raw) ==
            RoundTrip(r, Sub(get(r, id_password), 2,
                             Len(get(r, id_password)) - 1), raw)
        Host(r, raw) == RoundTrip(r, get(r, id_hostname), raw)
        Query(r, raw) == RoundTrip(r, Tail0(get(r, id_query), 1), raw)
        Fragment(r, raw) == RoundTrip(r, Tail0(get(r, id_frag), 1), raw)
    IN \A raw \in RawInputs :
        /\ User(set_username(U, raw), raw)
        /\ Password(set_password(U, raw), raw)
        /\ Host(set_hostname(U, raw), raw)
        /\ Query(set_query(U, raw), raw)
        /\ Fragment(set_fragment(U, raw), raw)

\* C21: after every successful mutation nseg is the number of segments of
\* the path region, forward iteration from segments().begin() meets
\* segments().end() after exactly nseg increments, and an empty path has
\* begin() = end().
C21_SegmentCount ==
    LET path == get(U, id_path)
    IN /\ pt_.nseg = SegmentCount(path)
       /\ iter_equal(seg_advance(U, seg_begin(U), pt_.nseg), seg_end(U))
       /\ \A k \in 0..(pt_.nseg - 1) :
            ~iter_equal(seg_advance(U, seg_begin(U), k), seg_end(U))
       /\ path = << >> => iter_equal(seg_begin(U), seg_end(U))

\* C22: after every successful mutation nparam is the number of
\* '&'-separated pairs of the query region, and forward iteration from
\* params().begin() meets params().end() after exactly nparam increments.
C22_ParamCount ==
    /\ pt_.nparam = ParamCount(get(U, id_query))
    /\ iter_equal(par_advance(U, par_begin(U), pt_.nparam), par_end(U))
    /\ \A k \in 0..(pt_.nparam - 1) :
         ~iter_equal(par_advance(U, par_begin(U), k), par_end(U))

\* the segments that k increments from it go over, joined with '/'
RECURSIVE seg_join(_, _, _)
seg_join(u, it, k) ==
    IF k = 0 THEN << >>
    ELSE seg_deref(u, it) \o (IF k > 1 THEN <<"/">> ELSE << >>)
            \o seg_join(u, seg_increment(u, it), k - 1)

\* C23: where nseg is the number of segments of the path, forward
\* iteration yields nseg segments, each inside the path region [o[5], o[6])
\* and without '/', whose concatenation with the separators is the path,
\* and the iterator equals segments().end() right after the last one, also
\* when a query or a fragment follows the path.
C23_SegmentsForward ==
    LET path == get(U, id_path)
    IN pt_.nseg = SegmentCount(path) =>
        /\ \A k \in 0..(pt_.nseg - 1) :
             LET it == seg_advance(U, seg_begin(U), k)
                 seg == seg_deref(U, it)
             IN /\ pt_.offset[id_path] <= it.off
                /\ it.off + it.n <= pt_.offset[id_query]
                /\ \A i \in 1..Len(seg) : seg[i] # "/"
        /\ iter_equal(seg_advance(U, seg_begin(U), pt_.nseg), seg_end(U))
        /\ path # << >> =>
             (IF path[1] = "/" THEN <<"/">> ELSE << >>)
                \o seg_join(U, seg_begin(U), pt_.nseg) = path

\* the keys the count is asked for
KeyInputs == {<<"k">>, <<"l">>, <<"%", "2", "3">>}

\* the '&'-separated pairs of the query part q ("?...")
Pairs(q) == IF q = << >> THEN << >> ELSE Split(Tail(q), "&")

\* the key of a pair: the bytes before its first '='
PairKey(p) == Sub(p, 1, Find(p, {"="}, 1) - 1)

\* the value of a pair: the bytes after its first '=', empty without one
PairValue(p) == Tail0(p, Find(p, {"="}, 1))

\* C24: where nparam is the number of pairs of the query, forward
\* iteration yields one (key, value) per '&'-separated pair, a key without
\* '=' giving its own element with the empty value; no element reads bytes
\* at or beyond o[7]; and params().count(k) is the number of pairs whose
\* key is k.
C24_ParamsForward ==
    LET pairs == Pairs(get(U, id_query))
    IN pt_.nparam = Len(pairs) =>
        /\ \A k \in 1..Len(pairs) :
             LET it == par_advance(U, par_begin(U), k - 1)
                 e == par_deref(U, it)
             IN /\ e.ok
                /\ e.key = PairKey(pairs[k])
                /\ e.value = {PairValue(pairs[k])}
                /\ it.off + it.nk + it.nv <= pt_.offset[id_frag]
        /\ \A key \in KeyInputs :
             par_count(U, par_begin(U), key)
               = Cardinality({k \in 1..Len(pairs) : PairKey(pairs[k]) = key})

C26_ResizeRange ==
    \A range \in Ranges, new_size \in 0..(MaxResize + 1) :
        LET o == pt_.offset
            first == range[1]
            last == range[2]
            len == length2(pt_, first, last)
            Holds(r) ==
                /\ r.pt_.offset[first] = o[first]
                /\ \A i \in (first + 1)..last :
                     r.pt_.offset[i] = o[first] + new_size
                /\ \A i \in (last + 1)..id_end :
                     r.pt_.offset[i] = o[i] + new_size - len
                /\ Sub(r.s_, 1, o[first]) = Sub(s_, 1, o[first])
                /\ Sub(r.s_, r.pt_.offset[last] + 1, r.pt_.offset[id_end] + 1)
                     = Sub(s_, o[last] + 1, o[id_end] + 1)
                /\ Len(r.s_) = r.pt_.offset[id_end] + 1
        IN ~too_large(U, len, new_size)
             => \A r \in {resize2(U, first, last, new_size)} : Holds(r)

\* the range from the user to the path, which no parsed URL of these
\* lengths fills, resized to one byte between bytes that were kept
C26_Witness ==
    /\ \A i \in id_password..id_path :
         pt_.offset[i] = pt_.offset[id_username] + 1
    /\ pt_.offset[id_username] > 0
    /\ pt_.offset[id_end] > pt_.offset[id_path]

\* C27: resize(id, new_size) changes component id alone: its length is
\* new_size and its first min(old, new) bytes are kept, every other
\* component keeps its length and bytes, o[0..id] are unchanged,
\* o[id+1..8] are shifted by new_size - old, and the terminator follows
\* the suffix.
C27_ResizeFrame ==
    \A id \in id_scheme..id_frag, new_size \in 0..(MaxResize + 1) :
        LET o == pt_.offset
            len == length(pt_, id)
            Holds(r) ==
                /\ length(r.pt_, id) = new_size
                /\ Sub(get(r, id), 1, Min(len, new_size))
                     = Sub(get(U, id), 1, Min(len, new_size))
                /\ \A j \in (id_scheme..id_frag) \ {id} :
                     /\ length(r.pt_, j) = length(pt_, j)
                     /\ get(r, j) = get(U, j)
                /\ \A i \in id_scheme..id : r.pt_.offset[i] = o[i]
                /\ \A i \in (id + 1)..id_end :
                     r.pt_.offset[i] = o[i] + new_size - len
                /\ Len(r.s_) = r.pt_.offset[id_end] + 1
                /\ r.s_[Len(r.s_)] = NUL
        IN ~too_large(U, len, new_size)
             => \A r \in {resize(U, id, new_size)} : Holds(r)

\* a buffer of the longest size in which a region that no parsed URL of
\* these lengths fills has been grown between bytes that were kept
C27_Witness ==
    /\ size(U) = MaxResize
    /\ \E id \in id_username..id_port :
         /\ length(pt_, id) > 0
         /\ pt_.offset[id] > 0
         /\ pt_.offset[id + 1] < pt_.offset[id_end]

\* the longest prefix of s made of bytes of the set e and %HH triplets
LongestPrefix(s, e) ==
    CHOOSE p \in {Sub(s, 1, n) : n \in 0..Len(s)} :
        /\ pct_validate(p, e)
        /\ \A n \in (Len(p) + 1)..Len(s) : ~pct_validate(Sub(s, 1, n), e)

\* C28: a call of the userinfo parser that succeeds leaves in t.user the
\* longest prefix of the input made of unreserved, sub-delims and
\* pct-encoded bytes (no raw ':'), sets t.pass if and only if a ':' follows
\* the user, to the longest run of unreserved, sub-delims, ':' and
\* pct-encoded bytes after it, leaves in t.str the consumed range
\* user [ ":" pass ], and returns start + |t.str|; a call that fails
\* returns start and leaves t as it was.
C28_UserinfoParser ==
    \A r \in {parse_userinfo(start_, t_)} :
        IF r.ec THEN r.it = 0 /\ r.t = t_
        ELSE LET user == LongestPrefix(start_, userinfo_nc_pct_set)
                 rest == Tail0(start_, Len(user))
                 colon == rest # << >> /\ rest[1] = ":"
             IN /\ r.t.user = user
                /\ \A i \in 1..Len(r.t.user) : r.t.user[i] # ":"
                /\ r.t.pass # {} <=> colon
                /\ colon => r.t.pass
                             = {LongestPrefix(Tail(rest), userinfo_pct_set)}
                /\ \A pass \in r.t.pass : r.t.str = user \o <<":">> \o pass
                /\ r.t.pass = {} => r.t.str = user
                /\ r.it = Len(r.t.str)
                /\ r.t.str = Sub(start_, 1, r.it)

\* a call has returned a user and a password and stopped before the '@'
C28_Witness ==
    /\ ~ret_.ec
    /\ t_.user # << >>
    /\ \E pass \in t_.pass : pass # << >>
    /\ ret_.it = Len(t_.str)
    /\ ret_.it < Len(start_)
    /\ start_[ret_.it + 1] = "@"

\* C29: in every state the setters reach, every BOOST_ASSERT holds that the
\* getters, set_username, set_password, set_encoded_authority,
\* set_encoded_host and the params iterators evaluate on it.
C29_Assertions ==
    /\ assert_scheme(U)
    /\ assert_encoded_authority(U)
    /\ assert_encoded_userinfo(U)
    /\ assert_encoded_username(U)
    /\ assert_encoded_password(U)
    /\ assert_port_string(U)
    /\ \A s \in UsernameInputs : assert_set_username(U, s)
    /\ \A s \in PasswordInputs : assert_set_password(U, s)
    /\ \A s \in AuthorityInputs : assert_set_encoded_authority(U, s)
    /\ \A s \in HostInputs : assert_set_encoded_host(U, s)
    /\ assert_params(U, par_begin(U))

\* the number of increments after which forward iteration over the
\* segments meets end(), or -1 when it does not within the buffer
seg_steps(u) ==
    LET K == {k \in 0..(MaxLen + 1) :
                iter_equal(seg_advance(u, seg_begin(u), k), seg_end(u))}
    IN IF K = {} THEN -1 ELSE CHOOSE k \in K : \A j \in K : k <= j

\* the same for the params
par_steps(u) ==
    LET K == {k \in 0..(MaxLen + 1) :
                iter_equal(par_advance(u, par_begin(u), k), par_end(u))}
    IN IF K = {} THEN -1 ELSE CHOOSE k \in K : \A j \in K : k <= j

\* the iterator that k decrements of it give
RECURSIVE seg_retreat(_, _, _)
seg_retreat(u, it, k) ==
    IF k = 0 THEN it ELSE seg_retreat(u, seg_decrement(u, it), k - 1)

RECURSIVE par_retreat(_, _, _)
par_retreat(u, it, k) ==
    IF k = 0 THEN it ELSE par_retreat(u, par_decrement(u, it), k - 1)

\* the members of a params iterator
Members(it) == <<it.off, it.nk, it.nv>>

\* C30, segments: where forward iteration meets end() after n increments,
\* the j-th decrement of end() is the iterator (position and length) that
\* n - j increments of begin() give, and -- after ++ gives back the same
\* iterator.
C30_SegmentsBackward ==
    \A n \in {seg_steps(U)} :
        /\ \A j \in 1..n :
             seg_retreat(U, seg_end(U), j)
               = seg_advance(U, seg_begin(U), n - j)
        /\ \A k \in 0..(n - 1) :
             \A it \in {seg_advance(U, seg_begin(U), k)} :
                seg_decrement(U, seg_increment(U, it)) = it

\* C30: backward iteration mirrors forward iteration for the segments and
\* for the params: where forward iteration meets end() after n increments,
\* the j-th decrement of end() is the iterator (position, key and value
\* lengths) that n - j increments of begin() give, and -- after ++ gives
\* back the same iterator.
C30_Backward ==
    /\ C30_SegmentsBackward
    /\ \A n \in {par_steps(U)} :
        /\ \A j \in 1..n :
             Members(par_retreat(U, par_end(U), j))
               = Members(par_advance(U, par_begin(U), n - j))
        /\ \A k \in 0..(n - 1) :
             \A it \in {par_advance(U, par_begin(U), k)} :
                Members(par_decrement(U, par_increment(U, it))) = Members(it)

====
